---- MODULE Spec2Model ----
(***************************************************************************)
(* A model of the FFV1 v3 frame decoder of src/decoder.rs: construction    *)
(* (Decoder::new, initialize_states), and decode_frame with its footer     *)
(* parsing, per-slice integrity check, state reset, header parsing and     *)
(* sample decoding (parse_footers, decode_slice, reset_slice_states,       *)
(* parse_slice_header, decode_slice_content, decode_line).                 *)
(*                                                                         *)
(* Sequences are 1-based: the element the code indexes with i is s[i+1].   *)
(* A packet is kept in parsed form: what is_keyframe, count_slices,        *)
(* crc32_mpeg2 and the range coder's header reads return for it.           *)
(***************************************************************************)
EXTENDS Integers, Sequences, FiniteSets, TLC

\* ------------------------------------------------------------------ bounds

\* Largest frame width and height drawn for the lifecycle specification.
MaxDim == 2
\* Largest frame width and height drawn for the geometry specification.
MaxGeomDim == 4
\* Largest number of slices a packet carries.
MaxSlices == 2
\* Number of decode_frame calls made on one decoder.
MaxCalls == 3
\* Largest log2 chroma subsampling drawn.
MaxLog2 == 1
\* Largest num_h_slices_minus1 / num_v_slices_minus1 drawn.
MaxGridMinus1 == 1

\* ------------------------------------------------------- program constants

\* The length of state_transition ([u8; 256]) and the modulus of a u8.
Byte == 256
\* The initial predictor of initialize_states.
InitPred == 128
\* The range coder's initial high (spec 4.1).
RangeHigh == 65280
\* The width of the i16 initialize_states adds in.
I16Bits == 16

\* ------------------------------------------------------------ arithmetic

Min(a, b) == IF a < b THEN a ELSE b
RECURSIVE Pow2(_)
Pow2(n) == IF n = 0 THEN 1 ELSE 2 * Pow2(n - 1)

\* (a as f64 / b as f64).ceil() as isize, exact on the integers modelled
CeilDiv(a, b) == (a + b - 1) \div b

\* i16::MIN and i16::MAX
I16Min == -Pow2(I16Bits - 1)
I16Max == Pow2(I16Bits - 1) - 1

\* `x as u8`, and `x & 255`, of a signed 16-bit x
AsU8(x) == x % Byte

\* whether x is outside i16: the sum that gives it panics in a build with
\* overflow checks and wraps in a build without
OverflowsI16(x) == x < I16Min \/ x > I16Max

\* the i16 a wrapping sum x leaves
WrapI16(x) == ((x - I16Min) % (I16Max - I16Min + 1)) + I16Min

\* pred::get_median: the median of three
get_median(a, b, c) ==
    IF a > b
    THEN (IF c > b THEN (IF c > a THEN a ELSE c) ELSE b)
    ELSE (IF c > a THEN (IF c > b THEN b ELSE c) ELSE a)

\* ------------------------------------------------------------ the record

\* rangecoder::tables::DEFAULT_STATE_TRANSITION: a table over 0..255 whose
\* entry 0 is unused and whose other entries stay inside 1..255
DEFAULT_STATE_TRANSITION ==
    [i \in 0..(Byte - 1) |->
        IF i = 0 THEN 0 ELSE Min(Byte - 1, i + 1 + ((Byte - 1 - i) \div 16))]

\* initial_state_delta[set][row][k], signed 16-bit deltas
DeltaTensor(sets, rows, a, b) ==
    [i \in 1..sets |-> [j \in 1..rows |-> << a, b >>]]

\* A parsed configuration record (record::ConfigRecord).
MkRecord(bits, cs, chroma, extra, lh, lv, nh, nv, ct, ec, sets, std, isd) ==
    [ bits_per_raw_sample     |-> bits,
      colorspace_type         |-> cs,
      chroma_planes           |-> chroma,
      extra_plane             |-> extra,
      log2_h_chroma_subsample |-> lh,
      log2_v_chroma_subsample |-> lv,
      num_h_slices_minus1     |-> nh,
      num_v_slices_minus1     |-> nv,
      coder_type              |-> ct,
      ec                      |-> ec,
      quant_table_set_count   |-> sets,
      context_count           |-> [i \in 1..sets |-> 2],
      state_transition_delta  |-> std,
      initial_state_delta     |-> isd ]

LoweredDelta == [i \in 0..(Byte - 1) |-> IF i > 16 /\ i < 240 THEN -1 ELSE 0]
ZeroDelta == [i \in 0..(Byte - 1) |-> 0]

\* The records of the lifecycle specification: 8-bit luma-only YCbCr on a
\* grid of MaxSlices slices: every coder type with the per-slice CRC (the
\* custom table of coder type 2 lowers the default one), and the range coder
\* without it.
RecordsLife ==
    { MkRecord(8, 0, FALSE, FALSE, 0, 0, MaxSlices - 1, 0, p[1], p[2], 1,
               IF p[1] = 2 THEN LoweredDelta ELSE ZeroDelta,
               DeltaTensor(1, 2, -3, 300)) :
        p \in { << 0, 1 >>, << 1, 1 >>, << 2, 1 >>, << 1, 0 >> } }

\* The bytes of a configuration record as Decoder::new receives them: their
\* length and what the record parser makes of them.
EmptyRecordBytes == [len |-> 0, parses |-> FALSE, record |-> << >>]
MalformedRecordBytes == [len |-> 1, parses |-> FALSE, record |-> << >>]
WellFormedBytes(r) == [len |-> 2, parses |-> TRUE, record |-> r]

\* record::ConfigRecord::parse_config_record
parse_config_record(bytes) ==
    IF bytes.parses
    THEN [ok |-> TRUE, record |-> bytes.record, err |-> ""]
    ELSE [ok |-> FALSE, record |-> << >>, err |-> "invalid record"]

\* ------------------------------------------------------------ errors

NoError == [kind |-> "None", msg |-> "", slice |-> -1, inner |-> << >>]
MkError(kind, msg) == [kind |-> kind, msg |-> msg, slice |-> -1, inner |-> << >>]
\* format!("...: {}", err): the outer kind and text around the inner error
Wrap(kind, msg, slice, err) ==
    [kind |-> kind, msg |-> msg, slice |-> slice, inner |-> << err >>]

\* ------------------------------------------------------------ construction

\* initialize_states, lines 262-268: state_transition[0] stays 0, the other
\* entries are (DEFAULT + delta) as u8
BuildStateTransition(rec) ==
    [i \in 0..(Byte - 1) |->
        IF i = 0 THEN 0
        ELSE AsU8(WrapI16(DEFAULT_STATE_TRANSITION[i]
                          + rec.state_transition_delta[i]))]

\* initialize_states, lines 275-287: row j of one set, from row j-1
RECURSIVE InitialRow(_, _)
InitialRow(d, j) ==
    [k \in 1..Len(d[j]) |->
        LET pred == IF j # 1 THEN InitialRow(d, j - 1)[k] ELSE InitPred
        IN AsU8(WrapI16(pred + d[j][k]))]

\* initialize_states, lines 270-288
BuildInitialStates(rec) ==
    [i \in 1..Len(rec.initial_state_delta) |->
        [j \in 1..Len(rec.initial_state_delta[i]) |->
            InitialRow(rec.initial_state_delta[i], j)]]

\* initialize_states, lines 265-266 and 284: whether one of its i16 sums
\* leaves i16
InitializeOverflows(rec) ==
    \/ \E i \in 1..(Byte - 1) :
          OverflowsI16(DEFAULT_STATE_TRANSITION[i] + rec.state_transition_delta[i])
    \/ \E i \in 1..Len(rec.initial_state_delta) :
          \E j \in 1..Len(rec.initial_state_delta[i]) :
             \E k \in 1..Len(rec.initial_state_delta[i][j]) :
                LET pred == IF j # 1
                            THEN InitialRow(rec.initial_state_delta[i], j - 1)[k]
                            ELSE InitPred
                IN OverflowsI16(pred + rec.initial_state_delta[i][j][k])

\* InternalFrame as Decoder::new builds it
EmptyFrame == [keyframe |-> FALSE, slice_info |-> << >>, slices |-> << >>]

NoRecord == [bits_per_raw_sample |-> 0]

NoDecoder ==
    [ width |-> 0, height |-> 0, record |-> NoRecord,
      state_transition |-> << >>, initial_states |-> << >>,
      current_frame |-> EmptyFrame ]

\* Decoder::new with the height left unchecked
NewDecoder_HeightUnchecked(bytes, w, h) ==
    IF w = 0
    THEN [err |-> MkError("InvalidInputData", "invalid dimensions"),
          decoder |-> NoDecoder]
    ELSE IF bytes.len = 0
    THEN [err |-> MkError("InvalidInputData", "invalid record with length zero"),
          decoder |-> NoDecoder]
    ELSE LET parsed == parse_config_record(bytes) IN
         IF ~parsed.ok
         THEN [err |-> Wrap("InvalidInputData",
                            "invalid v3 configuration record", -1,
                            MkError("Record", parsed.err)),
               decoder |-> NoDecoder]
         ELSE [err |-> NoError,
               decoder |->
                 [ width |-> w, height |-> h, record |-> parsed.record,
                   state_transition |-> BuildStateTransition(parsed.record),
                   initial_states |-> BuildInitialStates(parsed.record),
                   current_frame |-> EmptyFrame ]]

\* Decoder::new, lines 81-121: the error, or the decoder
NewDecoder(bytes, w, h) ==
    IF w = 0 \/ h = 0
    THEN [err |-> MkError("InvalidInputData", "invalid dimensions"),
          decoder |-> NoDecoder]
    ELSE IF bytes.len = 0
    THEN [err |-> MkError("InvalidInputData", "invalid record with length zero"),
          decoder |-> NoDecoder]
    ELSE LET parsed == parse_config_record(bytes) IN
         IF ~parsed.ok
         THEN [err |-> Wrap("InvalidInputData",
                            "invalid v3 configuration record", -1,
                            MkError("Record", parsed.err)),
               decoder |-> NoDecoder]
         ELSE [err |-> NoError,
               decoder |->
                 [ width |-> w, height |-> h, record |-> parsed.record,
                   state_transition |-> BuildStateTransition(parsed.record),
                   initial_states |-> BuildInitialStates(parsed.record),
                   current_frame |-> EmptyFrame ]]

\* ------------------------------------------------------------ packets

\* One slice of a packet: its footer's error_status, whether the CRC residue
\* over its data and footer is zero, the first two payload bytes the range
\* coder loads, and the header fields the range coder yields.
MkSlicePkt(es, crcok, low, sx, sy, qi) ==
    [ error_status |-> es, crc_ok |-> crcok, low |-> low,
      slice_x |-> sx, slice_y |-> sy,
      slice_width_minus1 |-> 0, slice_height_minus1 |-> 0,
      quant_index |-> qi ]

\* The payloads drawn: the first two bytes of a slice, one below the first
\* split of a state byte of 125 and one just above it.
Payloads == { 1000, 34004 }
LowPayload == CHOOSE x \in Payloads : \A y \in Payloads : x <= y
OtherPayload(low) == CHOOSE x \in Payloads : x # low

\* A packet of n slices naming the cells of the record's slice grid in raster
\* order; fault names what is wrong with slice `at`, or with the footers.
MkPacket(rec, key, n, fault, at, low) ==
    [ keyframe  |-> key,
      footer_ok |-> fault # "footer",
      slices    |->
        [i \in 1..n |->
            MkSlicePkt(IF fault \in {"status", "both"} /\ at = i THEN 1 ELSE 0,
                       ~(fault \in {"crc", "both"} /\ at = i),
                       IF i % 2 = 1 THEN low ELSE OtherPayload(low),
                       (i - 1) % (rec.num_h_slices_minus1 + 1),
                       (i - 1) \div (rec.num_h_slices_minus1 + 1),
                       0)] ]

PacketsLife(rec) ==
    { MkPacket(rec, key, n, "none", 1, low) :
        key \in BOOLEAN, n \in 1..MaxSlices, low \in Payloads }
    \cup
    { MkPacket(rec, key, n, "footer", 1, LowPayload) :
        key \in BOOLEAN, n \in 1..MaxSlices }
    \cup
    UNION { { MkPacket(rec, key, n, fault, at, LowPayload) :
                key \in BOOLEAN, fault \in {"status", "crc", "both"}, at \in 1..n } :
            n \in 1..MaxSlices }

\* slice::is_keyframe: the first range-coded bit of slice 0
is_keyframe(pkt) == pkt.keyframe

\* slice::count_slices: the slice_info list of the footers, or an error
count_slices(pkt, ec) ==
    IF pkt.footer_ok
    THEN [ok |-> TRUE,
          slice_info |->
            [i \in 1..Len(pkt.slices) |->
                [pos |-> i, size |-> 2,
                 error_status |-> pkt.slices[i].error_status]]]
    ELSE [ok |-> FALSE, slice_info |-> << >>]

\* crc32mpeg2::crc32_mpeg2 over size + 8 bytes from the slice's position
crc32_mpeg2(pkt, info) == IF pkt.slices[info.pos].crc_ok THEN 0 ELSE 1

\* ------------------------------------------------------------ slices

\* golomb::State::new (spec 3: drift 0, error_sum 4, count 1, bias 0)
GolombStateNew == [drift |-> 0, error_sum |-> 4, bias |-> 0, count |-> 1]

\* Slice::default()
DefaultSlice ==
    [ slice_x |-> 0, slice_y |-> 0,
      slice_width_minus1 |-> 0, slice_height_minus1 |-> 0,
      quant_table_set_index |-> << >>,
      start_x |-> 0, start_y |-> 0, width |-> 0, height |-> 0,
      state |-> << >>, golomb_state |-> << >> ]

\* parse_footers carrying the states of slice 0 into every slice
CarriedSlices_FromFirst(d, n) ==
    [i \in 1..n |->
        IF d.current_frame.keyframe
        THEN DefaultSlice
        ELSE [DefaultSlice EXCEPT
                !.state = d.current_frame.slices[1].state,
                !.golomb_state =
                    IF d.record.coder_type = 0
                    THEN d.current_frame.slices[1].golomb_state
                    ELSE << >>]]

\* parse_footers, lines 306-321: the slice list of the new frame
CarriedSlices(d, n) ==
    [i \in 1..n |->
        IF d.current_frame.keyframe
        THEN DefaultSlice
        ELSE [DefaultSlice EXCEPT
                !.state = d.current_frame.slices[i].state,
                !.golomb_state =
                    IF d.record.coder_type = 0
                    THEN d.current_frame.slices[i].golomb_state
                    ELSE << >>]]

\* parse_footers refusing an inter frame only when it has more slices than
\* are stored
parse_footers_MoreOnly(d, pkt) ==
    LET counted == count_slices(pkt, d.record.ec # 0)
        d1 == [d EXCEPT !.current_frame.slice_info = counted.slice_info]
        n  == Len(counted.slice_info)
    IN IF ~counted.ok
       THEN [err |-> Wrap("SliceError", "couldn't count slices", -1,
                          MkError("Footer", "no footer")),
             decoder |-> d1]
       ELSE IF ~d1.current_frame.keyframe /\ n > Len(d1.current_frame.slices)
       THEN [err |-> MkError("SliceError",
                             "inter frames must have the same number of slices as the preceding intra frame"),
             decoder |-> d1]
       ELSE [err |-> NoError,
             decoder |-> [d1 EXCEPT !.current_frame.slices = CarriedSlices(d1, n)]]

\* parse_footers, lines 296-325, on a decoder whose keyframe flag is set
parse_footers(d, pkt) ==
    LET counted == count_slices(pkt, d.record.ec # 0)
        d1 == [d EXCEPT !.current_frame.slice_info = counted.slice_info]
        n  == Len(counted.slice_info)
    IN IF ~counted.ok
       THEN [err |-> Wrap("SliceError", "couldn't count slices", -1,
                          MkError("Footer", "no footer")),
             decoder |-> d1]
       ELSE IF ~d1.current_frame.keyframe /\ n # Len(d1.current_frame.slices)
       THEN [err |-> MkError("SliceError",
                             "inter frames must have the same number of slices as the preceding intra frame"),
             decoder |-> d1]
       ELSE [err |-> NoError,
             decoder |-> [d1 EXCEPT !.current_frame.slices = CarriedSlices(d1, n)]]

\* reset_slice_states moving the rows of initial_states into the slice
\* instead of copying them
reset_slice_states_Moved(d, i) ==
    [d EXCEPT
        !.current_frame.slices[i].state = d.initial_states,
        !.initial_states = << >>,
        !.current_frame.slices[i].golomb_state =
            IF d.record.coder_type = 0
            THEN [a \in 1..d.record.quant_table_set_count |->
                    [b \in 1..d.record.context_count[a] |-> GolombStateNew]]
            ELSE @]

\* reset_slice_states, lines 789-823
reset_slice_states(d, i) ==
    [d EXCEPT
        !.current_frame.slices[i].state =
            [a \in 1..Len(d.initial_states) |->
                [b \in 1..Len(d.initial_states[a]) |-> d.initial_states[a][b]]],
        !.current_frame.slices[i].golomb_state =
            IF d.record.coder_type = 0
            THEN [a \in 1..d.record.quant_table_set_count |->
                    [b \in 1..d.record.context_count[a] |-> GolombStateNew]]
            ELSE @]

\* decode_slice, lines 835-859: the integrity check of slice i
SliceIntegrity(d, pkt, i) ==
    IF d.record.ec = 1
    THEN IF d.current_frame.slice_info[i].error_status # 0
         THEN MkError("SliceError", "error_status is non-zero")
         ELSE IF crc32_mpeg2(pkt, d.current_frame.slice_info[i]) # 0
         THEN MkError("InvalidInputData", "CRC mismatch")
         ELSE NoError
    ELSE NoError

\* decode_slice refreshing the states of a keyframe slice before it checks
\* the slice's integrity
decode_slice_enter_ResetFirst(d, pkt, i) ==
    LET err == SliceIntegrity(d, pkt, i)
        d1  == IF d.current_frame.keyframe THEN reset_slice_states(d, i) ELSE d
    IN [err |-> err, decoder |-> d1]

\* decode_slice refreshing the states of slice 0 only
decode_slice_enter_FirstOnly(d, pkt, i) ==
    LET err == SliceIntegrity(d, pkt, i) IN
    IF err.kind # "None"
    THEN [err |-> err, decoder |-> d]
    ELSE [err |-> NoError,
          decoder |-> IF d.current_frame.keyframe /\ i = 1
                      THEN reset_slice_states(d, i) ELSE d]

\* decode_slice, lines 835-867: the integrity check, then the keyframe reset
decode_slice_enter(d, pkt, i) ==
    LET err == SliceIntegrity(d, pkt, i) IN
    IF err.kind # "None"
    THEN [err |-> err, decoder |-> d]
    ELSE [err |-> NoError,
          decoder |-> IF d.current_frame.keyframe
                      THEN reset_slice_states(d, i) ELSE d]

\* parse_slice_header taking every slice to be W / columns wide and
\* H / rows high
parse_slice_header_EvenCells(d, sp, i) ==
    LET W  == d.width
        H  == d.height
        nh == d.record.num_h_slices_minus1 + 1
        nv == d.record.num_v_slices_minus1 + 1
        count == 1 + (IF d.record.chroma_planes THEN 1 ELSE 0)
                   + (IF d.record.extra_plane THEN 1 ELSE 0)
        sx == (sp.slice_x * W) \div nh
        sy == (sp.slice_y * H) \div nv
    IN [d EXCEPT !.current_frame.slices[i] =
          [@ EXCEPT
             !.slice_x = sp.slice_x,
             !.slice_y = sp.slice_y,
             !.slice_width_minus1 = sp.slice_width_minus1,
             !.slice_height_minus1 = sp.slice_height_minus1,
             !.quant_table_set_index = [q \in 1..count |-> sp.quant_index],
             !.start_x = sx,
             !.start_y = sy,
             !.width  = ((sp.slice_width_minus1 + 1) * W) \div nh,
             !.height = ((sp.slice_height_minus1 + 1) * H) \div nv]]

\* parse_slice_header, lines 339-418: the header fields and the boundaries
parse_slice_header(d, sp, i) ==
    LET W  == d.width
        H  == d.height
        nh == d.record.num_h_slices_minus1 + 1
        nv == d.record.num_v_slices_minus1 + 1
        count == 1 + (IF d.record.chroma_planes THEN 1 ELSE 0)
                   + (IF d.record.extra_plane THEN 1 ELSE 0)
        sx == (sp.slice_x * W) \div nh
        sy == (sp.slice_y * H) \div nv
    IN [d EXCEPT !.current_frame.slices[i] =
          [@ EXCEPT
             !.slice_x = sp.slice_x,
             !.slice_y = sp.slice_y,
             !.slice_width_minus1 = sp.slice_width_minus1,
             !.slice_height_minus1 = sp.slice_height_minus1,
             !.quant_table_set_index = [q \in 1..count |-> sp.quant_index],
             !.start_x = sx,
             !.start_y = sy,
             !.width  = (((sp.slice_x + sp.slice_width_minus1 + 1) * W) \div nh) - sx,
             !.height = (((sp.slice_y + sp.slice_height_minus1 + 1) * H) \div nv) - sy]]

\* ------------------------------------------------------------ the frame

Zeros(n) == [k \in 1..n |-> 0]

\* decode_frame, lines 150-156
NumPlanes(rec) ==
    1 + (IF rec.chroma_planes THEN 2 ELSE 0) + (IF rec.extra_plane THEN 1 ELSE 0)

\* decode_frame, lines 160-174 and 184-198: the planes of buf or of buf16;
\* writing plane 3 of a shorter list panics
AllocPlanes(d) ==
    LET rec == d.record
        n   == NumPlanes(rec)
        cw  == d.width \div Pow2(rec.log2_h_chroma_subsample)
        ch  == d.height \div Pow2(rec.log2_v_chroma_subsample)
    IN [ panic  |-> rec.extra_plane /\ n < 4,
         planes |->
           [p \in 1..n |->
              IF p = 1 THEN Zeros(d.width * d.height)
              ELSE IF rec.chroma_planes /\ p \in {2, 3} THEN Zeros(cw * ch)
              ELSE IF rec.extra_plane /\ p = 4 THEN Zeros(d.width * d.height)
              ELSE << >>] ]

\* decode_frame, lines 207-213: the planes of buf32; writing planes 1 and 2
\* (and 3) of a shorter list panics
AllocPlanes32(d) ==
    LET rec == d.record
        n   == NumPlanes(rec)
    IN [ panic  |-> n < 3 \/ (rec.extra_plane /\ n < 4),
         planes |->
           [p \in 1..n |->
              IF p \in {1, 2, 3} \/ (rec.extra_plane /\ p = 4)
              THEN Zeros(d.width * d.height) ELSE << >>] ]

\* decode_frame, lines 128-214: the frame as allocated, or a panic
AllocFrame(d) ==
    LET rec  == d.record
        use8  == rec.bits_per_raw_sample = 8
        use16 == rec.bits_per_raw_sample > 8 \/ rec.colorspace_type = 1
        use32 == rec.bits_per_raw_sample = 16 /\ rec.colorspace_type = 1
        a   == AllocPlanes(d)
        a32 == AllocPlanes32(d)
    IN [ panic   |-> ((use8 \/ use16) /\ a.panic) \/ (use32 /\ a32.panic),
         alloc32 |-> use32,
         frame   |-> [ buf   |-> IF use8 THEN a.planes ELSE << >>,
                       buf16 |-> IF use16 THEN a.planes ELSE << >>,
                       buf32 |-> IF use32 THEN a32.planes ELSE << >> ] ]

EmptyFrameBufs == [buf |-> << >>, buf16 |-> << >>, buf32 |-> << >>]

\* decode_frame dropping the 16-bit scratch but keeping the 32-bit one
ReleaseScratch_Keep32(d, f) ==
    [f EXCEPT
        !.buf16 = IF d.record.bits_per_raw_sample = 8
                     /\ d.record.colorspace_type = 1
                  THEN << >> ELSE @]

\* decode_frame, lines 245-255: the scratch buffers are dropped
ReleaseScratch(d, f) ==
    [f EXCEPT
        !.buf16 = IF d.record.bits_per_raw_sample = 8
                     /\ d.record.colorspace_type = 1
                  THEN << >> ELSE @,
        !.buf32 = << >>]

\* decode_line, lines 466-497 and 558-574: the buffer a line is decoded into
LineBuffer(rec) ==
    IF rec.bits_per_raw_sample = 8 /\ rec.colorspace_type # 1 THEN "buf"
    ELSE IF rec.bits_per_raw_sample = 16 /\ rec.colorspace_type = 1 THEN "buf32"
    ELSE "buf16"

\* decode_frame, lines 159 and 181: the buffer a returned frame holds its
\* samples in
OutputBuffer(rec) == IF rec.bits_per_raw_sample = 8 THEN "buf" ELSE "buf16"

\* ------------------------------------------------------------ geometry

\* decode_slice_content, lines 589-597: 2 when chroma planes are coded
ChromaPlanes(rec) == IF rec.chroma_planes THEN 2 ELSE 0
PrimaryColorCount(rec) ==
    1 + ChromaPlanes(rec) + (IF rec.extra_plane THEN 1 ELSE 0)

\* decode_slice_content, lines 608-650 and 658: the line geometry of plane p
\* of slice s in YCbCr mode
PlaneGeometry(d, s, p) ==
    LET rec == d.record
        lh  == Pow2(rec.log2_h_chroma_subsample)
        lv  == Pow2(rec.log2_v_chroma_subsample)
    IN IF p = 0 \/ p = 1 + ChromaPlanes(rec)
       THEN [ plane |-> p,
              height |-> s.height, width |-> s.width, stride |-> d.width,
              offset |-> s.start_y * d.width + s.start_x,
              qt |-> IF p = 0 THEN 0 ELSE ChromaPlanes(rec) ]
       ELSE LET stride == CeilDiv(d.width, lh)
                sx == CeilDiv(s.start_x, lv)
                sy == CeilDiv(s.start_y, lh)
            IN [ plane |-> p,
                 height |-> CeilDiv(s.height, lv), width |-> CeilDiv(s.width, lh),
                 stride |-> stride,
                 offset |-> sy * stride + sx,
                 qt |-> 1 ]

\* decode_slice_content, lines 686-750: the line geometry of plane p of
\* slice s in RGB mode
PlaneGeometryRGB(d, s, p) ==
    [ plane |-> p,
      height |-> s.height, width |-> s.width, stride |-> d.width,
      offset |-> s.start_y * d.width + s.start_x,
      qt |-> << 0, 1, 1, 2 >>[p + 1] ]

\* decode_line, lines 561-573: the buffer indices the lines of one plane write
PlaneWrites(g) ==
    { g.offset + y * g.stride + x :
        y \in 0..(g.height - 1), x \in 0..(g.width - 1) }

\* the samples of one plane, line by line, left to right
PlaneSamples(g) ==
    [k \in 1..(g.width * g.height) |->
        [ g |-> g, x |-> (k - 1) % g.width, y |-> (k - 1) \div g.width ]]

RECURSIVE YCbCrSamples(_, _, _)
YCbCrSamples(d, s, p) ==
    IF p >= PrimaryColorCount(d.record) THEN << >>
    ELSE PlaneSamples(PlaneGeometry(d, s, p)) \o YCbCrSamples(d, s, p + 1)

\* RGB mode: every line decodes planes 0, 1, 2 and, with alpha, 3
RGBSamples(d, s) ==
    LET np == IF d.record.extra_plane THEN 4 ELSE 3
    IN [k \in 1..(s.height * np * s.width) |->
          [ g |-> PlaneGeometryRGB(d, s, ((k - 1) \div s.width) % np),
            x |-> (k - 1) % s.width,
            y |-> (k - 1) \div (np * s.width) ]]

\* decode_slice_content: the decode_line samples of slice s, in order
SliceSamples(d, s) ==
    IF d.record.colorspace_type # 1 THEN YCbCrSamples(d, s, 0)
    ELSE RGBSamples(d, s)

\* ------------------------------------------------------------ the coders

\* RangeCoder::new (spec 4.1): low from the first two bytes, high 0xFF00
RangeCoderNew(sp) == [low |-> sp.low, high |-> RangeHigh]

\* spec 4.1 renormalize: bytes past the modelled payload read as 0
Renormalize(c) ==
    IF c.high < Byte THEN [low |-> c.low * Byte, high |-> c.high * Byte] ELSE c

\* spec 4.1 get_bit on one state byte st with transition table tbl
get_bit(c, st, tbl) ==
    LET split == (c.high \div Byte) * st + (Byte - 1)
    IN IF c.low < c.high - split
       THEN [ bit |-> 0, st |-> tbl[st],
              coder |-> Renormalize([low |-> c.low, high |-> c.high - split]) ]
       ELSE [ bit |-> 1, st |-> Byte - tbl[Byte - st],
              coder |-> Renormalize([low |-> c.low - (c.high - split),
                                     high |-> split]) ]

\* RangeCoder::sr (spec 4.1 get_symbol) on the state bytes of one context:
\* a zero flag on byte 0, then a sign on byte 1
sr(c, cells, tbl) ==
    LET b0 == get_bit(c, cells[1], tbl)
        b1 == get_bit(b0.coder, cells[2], tbl)
    IN IF b0.bit = 0
       THEN [ value |-> 0, coder |-> b0.coder,
              cells |-> [cells EXCEPT ![1] = b0.st] ]
       ELSE [ value |-> IF b1.bit = 1 THEN -1 ELSE 1, coder |-> b1.coder,
              cells |-> [cells EXCEPT ![1] = b0.st, ![2] = b1.st] ]

\* spec 4.2: the Rice parameter of a Golomb state
RECURSIVE RiceK(_, _)
RiceK(gs, k) ==
    IF k >= 15 \/ gs.count * Pow2(k) >= gs.error_sum THEN k ELSE RiceK(gs, k + 1)

\* golomb::Coder::sg (spec 4.2 decode_symbol) on one Golomb state: the
\* residual read with the state's Rice parameter, and the state's update
sg(c, gs) ==
    LET v  == (c.low \div Pow2(RiceK(gs, 0))) % 2
        g1 == [ drift |-> gs.drift + v, error_sum |-> gs.error_sum + v,
                bias |-> gs.bias, count |-> gs.count + 1 ]
    IN [ value |-> v, coder |-> c,
         gs |-> IF g1.count = 128
                THEN [ drift |-> g1.drift \div 2, error_sum |-> g1.error_sum \div 2,
                       bias |-> g1.bias, count |-> g1.count \div 2 ]
                ELSE g1 ]

\* pred::get_context (spec 4.3), on the first quantized delta
get_context(l, tl) ==
    LET delta == (l - tl) % Byte
    IN IF delta = 0 THEN 0 ELSE IF delta < 128 THEN 1 ELSE -1

\* ------------------------------------------------------------ decode_line

\* The decoding of one slice in progress: the frame, the slice's states, the
\* coder, and whether an index left its vector.
\* decode_line, lines 454-575, for the sample smp of slice s
DecodeSample(d, acc, smp) ==
    LET rec   == d.record
        g     == smp.g
        name  == LineBuffer(rec)
        bufs  == acc.frame[name]
        s     == acc.slice
        golomb == rec.coder_type = 0
        shift == IF rec.colorspace_type = 1
                 THEN rec.bits_per_raw_sample + 1 ELSE rec.bits_per_raw_sample
        idx   == g.offset + smp.y * g.stride + smp.x
        inPlane == g.plane + 1 <= Len(bufs)
                   /\ idx + 1 <= Len(bufs[g.plane + 1])
        plane == bufs[g.plane + 1]
        t  == IF smp.y > 0 THEN plane[idx - g.stride + 1] ELSE 0
        l  == IF smp.x > 0 THEN plane[idx] ELSE t
        tl == IF smp.x > 0 /\ smp.y > 0 THEN plane[idx - g.stride] ELSE 0
        c0 == get_context(l, tl)
        sign == c0 < 0
        context == IF sign THEN -c0 ELSE c0
        inTable == g.qt + 1 <= Len(s.quant_table_set_index)
                   /\ s.quant_table_set_index[g.qt + 1] < rec.quant_table_set_count
        inState ==
            IF golomb
            THEN g.qt + 1 <= Len(s.golomb_state)
                 /\ context + 1 <= Len(s.golomb_state[g.qt + 1])
            ELSE g.qt + 1 <= Len(s.state)
                 /\ context + 1 <= Len(s.state[g.qt + 1])
                 /\ 2 <= Len(s.state[g.qt + 1][context + 1])
        tbl == IF rec.coder_type = 2 THEN d.state_transition
               ELSE DEFAULT_STATE_TRANSITION
        dec == IF golomb
               THEN sg(acc.coder, s.golomb_state[g.qt + 1][context + 1])
               ELSE sr(acc.coder, s.state[g.qt + 1][context + 1], tbl)
        diff == IF sign THEN -dec.value ELSE dec.value
        ext(v) == IF v >= 32768 THEN v - 65536 ELSE v
        med == IF rec.colorspace_type = 0 /\ rec.bits_per_raw_sample = 16 /\ ~golomb
               THEN get_median(ext(l), ext(t), ext(l) + ext(t) - ext(tl))
               ELSE get_median(l, t, l + t - tl)
        val == (diff + med) % Pow2(shift)
    IN IF acc.panic \/ ~inPlane \/ ~inTable \/ ~inState
       THEN [acc EXCEPT !.panic = TRUE]
       ELSE [ frame |-> [acc.frame EXCEPT ![name][g.plane + 1][idx + 1] = val],
              slice |-> IF golomb
                        THEN [s EXCEPT !.golomb_state[g.qt + 1][context + 1] = dec.gs]
                        ELSE [s EXCEPT !.state[g.qt + 1][context + 1] = dec.cells],
              coder |-> dec.coder,
              panic |-> FALSE ]

RECURSIVE DecodeSamples(_, _, _, _)
DecodeSamples(d, acc, samples, k) ==
    IF k > Len(samples) \/ acc.panic THEN acc
    ELSE DecodeSamples(d, DecodeSample(d, acc, samples[k]), samples, k + 1)

\* ------------------------------------------------------------ RCT

\* decode_slice_content, lines 753-784: the RCT inverse applied to a slice
RctVariant(rec) ==
    IF rec.bits_per_raw_sample = 8 THEN "rct8"
    ELSE IF rec.bits_per_raw_sample >= 9 /\ rec.bits_per_raw_sample <= 15
            /\ ~rec.extra_plane
    THEN "rct_mid"
    ELSE "rct16"

\* the buffer a variant reads and the buffer it writes
RctSource(v) == IF v = "rct8" THEN "buf16" ELSE IF v = "rct_mid" THEN "buf16" ELSE "buf32"
RctTarget(v) == IF v = "rct8" THEN "buf" ELSE "buf16"

\* jpeg2000rct::{rct8, rct_mid, rct16} (spec 4.4) on the rectangle of slice s
Rct(d, f, s) ==
    LET v    == RctVariant(d.record)
        src  == f[RctSource(v)]
        dst  == f[RctTarget(v)]
        mask == Pow2(d.record.bits_per_raw_sample)
        idxs == PlaneWrites(PlaneGeometryRGB(d, s, 0))
        ok   == Len(src) >= 3 /\ Len(dst) >= 3
                /\ \A p \in 1..3 : \A i \in idxs :
                        i + 1 <= Len(src[p]) /\ i + 1 <= Len(dst[p])
        G(i) == src[1][i + 1] - ((src[2][i + 1] + src[3][i + 1]) \div 4)
        out(p, i) ==
            IF p = 1 THEN G(i) % mask
            ELSE IF p = 2 THEN (G(i) + src[2][i + 1]) % mask
            ELSE IF p = 3 THEN (G(i) + src[3][i + 1]) % mask
            ELSE IF p <= Len(src) /\ i + 1 <= Len(src[p]) THEN src[p][i + 1] % mask
            ELSE dst[p][i + 1]
    IN IF ~ok THEN [panic |-> TRUE, frame |-> f]
       ELSE [ panic |-> FALSE,
              frame |-> [f EXCEPT ![RctTarget(v)] =
                  [p \in 1..Len(dst) |->
                      [k \in 1..Len(dst[p]) |->
                          IF (k - 1) \in idxs THEN out(p, k - 1) ELSE dst[p][k]]]] ]

\* decode_slice on a slice state that shares its rows with initial_states
\* (a reset that does not copy): what decoding writes to the slice's state
\* shows in initial_states
decode_slice_body_SharedStates(d, pkt, f, i) ==
    LET sp  == pkt.slices[d.current_frame.slice_info[i].pos]
        d1  == parse_slice_header(d, sp, i)
        s   == d1.current_frame.slices[i]
        acc == DecodeSamples(d1,
                   [ frame |-> f, slice |-> s, coder |-> RangeCoderNew(sp),
                     panic |-> FALSE ],
                   SliceSamples(d1, s), 1)
        rct == IF d1.record.colorspace_type = 1 /\ ~acc.panic
               THEN Rct(d1, acc.frame, s)
               ELSE [panic |-> acc.panic, frame |-> acc.frame]
    IN [ panic   |-> rct.panic,
         frame   |-> rct.frame,
         decoder |-> [d1 EXCEPT !.current_frame.slices[i] = acc.slice,
                                !.initial_states =
                                    IF d1.current_frame.keyframe
                                    THEN acc.slice.state ELSE @] ]

\* decode_slice, lines 869-915: the header, then the samples of slice i, then
\* in RGB mode the RCT inverse
decode_slice_body(d, pkt, f, i) ==
    LET sp  == pkt.slices[d.current_frame.slice_info[i].pos]
        d1  == parse_slice_header(d, sp, i)
        s   == d1.current_frame.slices[i]
        acc == DecodeSamples(d1,
                   [ frame |-> f, slice |-> s, coder |-> RangeCoderNew(sp),
                     panic |-> FALSE ],
                   SliceSamples(d1, s), 1)
        rct == IF d1.record.colorspace_type = 1 /\ ~acc.panic
               THEN Rct(d1, acc.frame, s)
               ELSE [panic |-> acc.panic, frame |-> acc.frame]
    IN [ panic   |-> rct.panic,
         frame   |-> rct.frame,
         decoder |-> [d1 EXCEPT !.current_frame.slices[i] = acc.slice] ]

\* ------------------------------------------------------------ decode_frame

\* decode_frame, lines 127-231: the allocation, the keyframe flag and the
\* footers; a panic, an error, or the frame and the decoder ready for slice 0
decode_frame_begin(d, pkt) ==
    LET a  == AllocFrame(d)
        d0 == [d EXCEPT !.current_frame.keyframe = is_keyframe(pkt)]
        pf == parse_footers(d0, pkt)
    IN IF a.panic
       THEN [panic |-> TRUE, err |-> NoError, decoder |-> d, frame |-> EmptyFrameBufs]
       ELSE IF pf.err.kind # "None"
       THEN [ panic |-> FALSE,
              err |-> Wrap("FrameError", "invalid frame footer", -1, pf.err),
              decoder |-> pf.decoder, frame |-> EmptyFrameBufs ]
       ELSE [ panic |-> FALSE, err |-> NoError,
              decoder |-> pf.decoder, frame |-> a.frame ]

\* decode_frame handing the error of decode_slice to the caller as it is
SliceFailure_Unwrapped(i, err) == err

\* decode_frame, lines 236-242: what the caller gets when slice i fails
SliceFailure(i, err) == Wrap("SliceError", "slice failed", i, err)

\* ------------------------------------------------------------ the state

VARIABLES
    decoder,       \* the Decoder, NoDecoder before Decoder::new succeeds
    pc,            \* "new", "failed", "idle", "slice", "content" or "panicked"
    frame_input,   \* the packet of the decode_frame call in progress
    frame,         \* the Frame the call in progress is filling
    slicenum,      \* the loop index of decode_frame, lines 235-243
    result,        \* what the last call returned to its caller
    entry_slices,  \* current_frame.slices when the last decode_frame call began
    calls          \* the number of decode_frame calls made

vars == << decoder, pc, frame_input, frame, slicenum, result, entry_slices, calls >>

NoPacket == [keyframe |-> FALSE, footer_ok |-> FALSE, slices |-> << >>]

\* What a call returned: kind is "None" before any call, "Ok", "Err" or "Panic".
MkResult(op, kind, err, f, pkt, args) ==
    [ op |-> op, kind |-> kind, err |-> err, frame |-> f, pkt |-> pkt,
      args |-> args ]

NoArgs == [len |-> 0, parses |-> FALSE, width |-> 0, height |-> 0]

Init ==
    /\ decoder = NoDecoder
    /\ pc = "new"
    /\ frame_input = NoPacket
    /\ frame = EmptyFrameBufs
    /\ slicenum = 0
    /\ result = MkResult("none", "None", NoError, EmptyFrameBufs, NoPacket, NoArgs)
    /\ entry_slices = << >>
    /\ calls = 0

\* Decoder::new(record, width, height); a call that fails leaves its caller
\* with no decoder, and another attempt is a run from Init. An i16 sum of
\* initialize_states that overflows panics in a build with overflow checks
\* and wraps in a build without.
New(records, widths, heights) ==
    /\ pc = "new"
    /\ \E bytes \in {EmptyRecordBytes, MalformedRecordBytes}
                      \cup { WellFormedBytes(r) : r \in records },
          w \in widths, h \in heights, overflow_checks \in BOOLEAN :
          LET r == NewDecoder(bytes, w, h)
              panics == /\ r.err.kind = "None"
                        /\ overflow_checks
                        /\ InitializeOverflows(r.decoder.record)
          IN
          /\ decoder' = IF panics THEN NoDecoder ELSE r.decoder
          /\ pc' = IF panics THEN "panicked"
                   ELSE IF r.err.kind = "None" THEN "idle" ELSE "failed"
          /\ result' = MkResult("new",
                                IF panics THEN "Panic"
                                ELSE IF r.err.kind = "None" THEN "Ok" ELSE "Err",
                                r.err, EmptyFrameBufs, NoPacket,
                                [ len |-> bytes.len, parses |-> bytes.parses,
                                  width |-> w, height |-> h ])
    /\ UNCHANGED << frame_input, frame, slicenum, entry_slices, calls >>

\* decode_frame up to the slice loop
DecodeFrameBegin(packets) ==
    /\ pc = "idle"
    /\ calls < MaxCalls
    /\ \E pkt \in packets :
          LET r == decode_frame_begin(decoder, pkt) IN
          /\ frame_input' = pkt
          /\ decoder' = r.decoder
          /\ frame' = r.frame
          /\ pc' = IF r.panic THEN "panicked"
                   ELSE IF r.err.kind # "None" THEN "idle" ELSE "slice"
          /\ result' = IF r.panic
                       THEN MkResult("decode_frame", "Panic", NoError,
                                     EmptyFrameBufs, pkt, NoArgs)
                       ELSE IF r.err.kind # "None"
                       THEN MkResult("decode_frame", "Err", r.err,
                                     EmptyFrameBufs, pkt, NoArgs)
                       ELSE result
    /\ slicenum' = 0
    /\ entry_slices' = decoder.current_frame.slices
    /\ calls' = calls + 1

\* decode_slice up to the keyframe reset, for the slice the loop is at
DecodeSliceEnter ==
    /\ pc = "slice"
    /\ slicenum < Len(decoder.current_frame.slices)
    /\ LET r == decode_slice_enter(decoder, frame_input, slicenum + 1) IN
       /\ decoder' = r.decoder
       /\ IF r.err.kind # "None"
          THEN /\ pc' = "idle"
               /\ frame' = EmptyFrameBufs
               /\ result' = MkResult("decode_frame", "Err",
                                     SliceFailure(slicenum, r.err),
                                     EmptyFrameBufs, frame_input, NoArgs)
          ELSE /\ pc' = "content"
               /\ UNCHANGED << frame, result >>
    /\ UNCHANGED << frame_input, slicenum, entry_slices, calls >>

\* the rest of decode_slice: the header and the samples
DecodeSliceBody ==
    /\ pc = "content"
    /\ LET r == decode_slice_body(decoder, frame_input, frame, slicenum + 1) IN
       /\ decoder' = r.decoder
       /\ IF r.panic
          THEN /\ pc' = "panicked"
               /\ frame' = EmptyFrameBufs
               /\ slicenum' = slicenum
               /\ result' = MkResult("decode_frame", "Panic", NoError,
                                     EmptyFrameBufs, frame_input, NoArgs)
          ELSE /\ pc' = "slice"
               /\ frame' = r.frame
               /\ slicenum' = slicenum + 1
               /\ UNCHANGED result
    /\ UNCHANGED << frame_input, entry_slices, calls >>

\* decode_frame after the slice loop: the scratch is dropped, the frame returned
DecodeFrameEnd ==
    /\ pc = "slice"
    /\ slicenum = Len(decoder.current_frame.slices)
    /\ pc' = "idle"
    /\ result' = MkResult("decode_frame", "Ok", NoError,
                          ReleaseScratch(decoder, frame), frame_input, NoArgs)
    /\ frame' = EmptyFrameBufs
    /\ UNCHANGED << decoder, frame_input, slicenum, entry_slices, calls >>

\* ------------------------------------------------------------ lifecycle

NewLife == New(RecordsLife, {0, MaxDim}, {0, 1})
BeginLife == DecodeFrameBegin(PacketsLife(decoder.record))

Next ==
    \/ NewLife
    \/ BeginLife
    \/ DecodeSliceEnter
    \/ DecodeSliceBody
    \/ DecodeFrameEnd

Spec == Init /\ [][Next]_vars

\* ------------------------------------------------------------ geometry runs

\* The records of the geometry specification: 8-bit YCbCr with the range
\* coder, every slice grid and, with chroma planes, every subsampling, with
\* and without alpha.
RecordsGeom ==
    { MkRecord(8, 0, TRUE, extra, lh, lv, nh, nv, 1, 0, 3, ZeroDelta,
               DeltaTensor(3, 2, -3, 300)) :
        extra \in BOOLEAN, lh \in 0..MaxLog2, lv \in 0..MaxLog2,
        nh \in 0..MaxGridMinus1, nv \in 0..MaxGridMinus1 }
    \cup
    { MkRecord(8, 0, FALSE, FALSE, 0, 0, nh, nv, 1, 0, 3, ZeroDelta,
               DeltaTensor(3, 2, -3, 300)) :
        nh \in 0..MaxGridMinus1, nv \in 0..MaxGridMinus1 }

\* the number of cells of the record's slice grid
GridCells(rec) == (rec.num_h_slices_minus1 + 1) * (rec.num_v_slices_minus1 + 1)

\* the keyframe whose slices name every cell of the grid once
PacketsGeom(rec) ==
    { MkPacket(rec, TRUE, GridCells(rec), "none", 1, LowPayload) }

NewGeom == New(RecordsGeom, 1..MaxGeomDim, 1..MaxGeomDim)
\* one frame per decoder: the geometry of a frame does not depend on the
\* frames before it
BeginGeom == calls = 0 /\ DecodeFrameBegin(PacketsGeom(decoder.record))

NextGeom ==
    \/ NewGeom
    \/ BeginGeom
    \/ DecodeSliceEnter
    \/ DecodeSliceBody
    \/ DecodeFrameEnd

SpecGeom == Init /\ [][NextGeom]_vars

\* ------------------------------------------------------------ format runs

\* The records of the format specification: every bit depth class, both
\* colorspaces, every combination of the plane flags, one slice.
RecordsFormat ==
    { MkRecord(bits, cs, chroma, extra, 0, 0, 0, 0, ct, 0, 3, ZeroDelta,
               DeltaTensor(3, 2, -3, 300)) :
        bits \in {8, 12, 16}, cs \in 0..1, chroma \in BOOLEAN,
        extra \in BOOLEAN, ct \in 0..1 }

PacketsFormat(rec) ==
    { MkPacket(rec, key, 1, "none", 1, low) : key \in BOOLEAN, low \in Payloads }

NewFormat == New(RecordsFormat, {1, MaxDim}, {1, MaxDim})
BeginFormat == DecodeFrameBegin(PacketsFormat(decoder.record))

NextFormat ==
    \/ NewFormat
    \/ BeginFormat
    \/ DecodeSliceEnter
    \/ DecodeSliceBody
    \/ DecodeFrameEnd

SpecFormat == Init /\ [][NextFormat]_vars

\* ------------------------------------------------------------ state runs

\* The signed 16-bit deltas drawn: both ends of i16, a negative delta that
\* takes the sum below 0, a delta that takes it above 255, and the deltas
\* around the largest one that 128 can take without leaving i16.
I16Samples == { -32768, -129, 0, 300, 32639, 32640, 32767 }

\* initial_state_delta with the rows r1 and r2 in every set
DeltaRows(sets, r1, r2) == [i \in 1..sets |-> << r1, r2 >>]

\* The records of the state specification: 8-bit luma-only YCbCr, one slice,
\* the range coder, one or two quant table sets and every pair of rows of
\* sampled deltas.
RecordsStates ==
    { MkRecord(8, 0, FALSE, FALSE, 0, 0, 0, 0, 1, 0, sets, ZeroDelta,
               DeltaRows(sets, << a, b >>, << c, e >>)) :
        sets \in 1..2, a \in I16Samples, b \in I16Samples,
        c \in I16Samples, e \in I16Samples }

PacketsStates(rec) == { MkPacket(rec, TRUE, 1, "none", 1, LowPayload) }

NewStates == New(RecordsStates, {1}, {1})
\* one keyframe per decoder
BeginStates == calls = 0 /\ DecodeFrameBegin(PacketsStates(decoder.record))

NextStates ==
    \/ NewStates
    \/ BeginStates
    \/ DecodeSliceEnter
    \/ DecodeSliceBody
    \/ DecodeFrameEnd

SpecStates == Init /\ [][NextStates]_vars

\* ------------------------------------------------------------ properties

\* a decode_frame call has just returned to its caller
Returned == pc = "idle" /\ result.op = "decode_frame"

\* the per-slice state of two slice lists is the same
SameSliceStates(a, b) ==
    /\ Len(a) = Len(b)
    /\ \A i \in 1..Len(a) :
          a[i].state = b[i].state /\ a[i].golomb_state = b[i].golomb_state

\* C1: a decode_frame call that returns an error leaves the stored per-slice
\* state (every state and golomb_state, and the number of slices) as it was
\* when the call began.
C1_FailedCallKeepsSliceStates ==
    (Returned /\ result.kind = "Err")
        => SameSliceStates(decoder.current_frame.slices, entry_slices)

\* The last call took a packet whose footers parse and whose slice count is
\* accepted, under ec == 1, and the first slice that is not intact, slice j,
\* has error_status 0 and a non-zero CRC residue.
CrcFailureAt(j) ==
    /\ Returned
    /\ decoder.record.ec = 1
    /\ result.pkt.footer_ok
    /\ result.pkt.keyframe \/ Len(result.pkt.slices) = Len(entry_slices)
    /\ j \in 1..Len(result.pkt.slices)
    /\ ~result.pkt.slices[j].crc_ok
    /\ \A i \in 1..j : result.pkt.slices[i].error_status = 0
    /\ \A i \in 1..(j - 1) : result.pkt.slices[i].crc_ok

\* C2 as stated: on a non-zero CRC residue decode_frame returns an error of
\* kind InvalidInputData with the message "CRC mismatch".
C2_CrcErrorIsInvalidInputData ==
    \A j \in 1..MaxSlices :
        (CrcFailureAt(j) /\ result.kind = "Err")
            => result.err.kind = "InvalidInputData" /\ result.err.msg = "CRC mismatch"

\* C2 amended: on a non-zero CRC residue of slice j decode_frame returns a
\* SliceError naming slice j that wraps decode_slice's
\* InvalidInputData("CRC mismatch").
C2_CrcErrorIsWrappedSliceError ==
    \A j \in 1..MaxSlices :
        (CrcFailureAt(j) /\ result.kind = "Err")
            => /\ result.err.kind = "SliceError"
               /\ result.err.slice = j - 1
               /\ result.err.inner = << MkError("InvalidInputData", "CRC mismatch") >>

C2_Witness ==
    /\ CrcFailureAt(2)
    /\ result.kind = "Err"
    /\ ~result.pkt.keyframe

\* The last call took an inter packet whose footers parse and whose slice
\* count differs from the stored one.
SliceCountMismatch ==
    /\ Returned
    /\ result.pkt.footer_ok
    /\ ~result.pkt.keyframe
    /\ Len(result.pkt.slices) # Len(entry_slices)

\* C3 as stated: an inter packet with another slice count than the stored one
\* makes decode_frame fail with an error of kind SliceError.
C3_MismatchIsSliceError ==
    SliceCountMismatch => result.kind = "Err" /\ result.err.kind = "SliceError"

\* C3 amended: an inter packet with another slice count than the stored one
\* makes decode_frame fail with a FrameError that wraps parse_footers'
\* SliceError, and the stored slices stay as they were.
C3_MismatchIsWrappedFrameError ==
    SliceCountMismatch =>
        /\ result.kind = "Err"
        /\ result.err.kind = "FrameError"
        /\ Len(result.err.inner) = 1
        /\ result.err.inner[1].kind = "SliceError"
        /\ decoder.current_frame.slices = entry_slices

C3_Witness ==
    /\ SliceCountMismatch
    /\ Len(entry_slices) = 2
    /\ Len(result.pkt.slices) = 1

\* C4: Decoder::new returns an InvalidInputData error and no decoder when the
\* width or the height is 0, the record is empty or the record does not
\* parse; otherwise it returns a decoder with no stored slice and the
\* keyframe flag false.
C4_NewChecksItsArguments ==
    (result.op = "new" /\ calls = 0 /\ pc \in {"failed", "idle"}) =>
        LET bad == \/ result.args.width = 0
                   \/ result.args.height = 0
                   \/ result.args.len = 0
                   \/ ~result.args.parses
        IN /\ bad => /\ result.kind = "Err"
                     /\ result.err.kind = "InvalidInputData"
                     /\ decoder = NoDecoder
                     /\ pc = "failed"
           /\ ~bad => /\ result.kind = "Ok"
                      /\ pc = "idle"
                      /\ decoder.width = result.args.width
                      /\ decoder.height = result.args.height
                      /\ decoder.current_frame.slices = << >>
                      /\ decoder.current_frame.keyframe = FALSE

C4_Witness ==
    /\ result.op = "new"
    /\ result.kind = "Err"
    /\ result.args.width > 0
    /\ result.args.height > 0
    /\ result.args.len > 0
    /\ ~result.args.parses

\* the Golomb states reset_slice_states is to build
DefaultGolombStates(rec) ==
    [a \in 1..rec.quant_table_set_count |->
        [b \in 1..rec.context_count[a] |-> GolombStateNew]]

\* C5: in a keyframe, before the header or any sample of slice i is read, the
\* range-coder state of slice i is a copy of initial_states and, with
\* coder_type == 0, its golomb_state has the shape
\* [quant_table_set_count][context_count[set]] and default entries; nothing of
\* an earlier frame is left in it.
C5_KeyframeResetsSliceState ==
    (pc = "content" /\ decoder.current_frame.keyframe) =>
        LET s == decoder.current_frame.slices[slicenum + 1] IN
        /\ s.state = decoder.initial_states
        /\ decoder.record.coder_type = 0
              => s.golomb_state = DefaultGolombStates(decoder.record)
        /\ decoder.record.coder_type # 0 => s.golomb_state = << >>

C5_Witness ==
    /\ pc = "content"
    /\ decoder.current_frame.keyframe
    /\ slicenum = 1
    /\ Len(entry_slices) = 2
    /\ entry_slices[2].state # << >>
    /\ entry_slices[2].state # decoder.initial_states

\* C6: in an inter frame whose slice count is the stored one, slice i starts
\* decoding with the range-coder state (and, with coder_type == 0, the
\* golomb_state) it had when the previous decode_frame call ended: nothing is
\* reset, and what an inter frame leaves is what the next one starts from.
C6_InterFrameCarriesSliceState ==
    (pc = "content" /\ ~decoder.current_frame.keyframe) =>
        LET s == decoder.current_frame.slices[slicenum + 1]
            e == entry_slices[slicenum + 1]
        IN /\ Len(decoder.current_frame.slices) = Len(entry_slices)
           /\ s.state = e.state
           /\ decoder.record.coder_type = 0 => s.golomb_state = e.golomb_state

C6_Witness ==
    /\ pc = "content"
    /\ ~decoder.current_frame.keyframe
    /\ slicenum = 1
    /\ calls = 3
    /\ result.kind = "Ok" /\ ~result.pkt.keyframe
    /\ entry_slices[2].state # << >>
    /\ entry_slices[2].state # decoder.initial_states

\* the call in progress has decoded its last slice, after a call that
\* returned a frame for the same packet
SecondDecodeOfSamePacket ==
    /\ pc = "slice"
    /\ slicenum = Len(decoder.current_frame.slices)
    /\ result.op = "decode_frame"
    /\ result.kind = "Ok"
    /\ result.pkt = frame_input

\* C7 as stated: two decode_frame calls in a row with the same packet,
\* keyframe or inter frame, return frames with the same plane buffers.
C7_SamePacketSameFrame ==
    [][(SecondDecodeOfSamePacket /\ pc' = "idle")
            => result'.frame = result.frame]_vars

\* C7 amended: two decode_frame calls in a row with the same keyframe packet
\* return frames with the same plane buffers.
C7_SameKeyframeSameFrame ==
    [][(SecondDecodeOfSamePacket /\ frame_input.keyframe /\ pc' = "idle")
            => result'.frame = result.frame]_vars

C7_Witness ==
    /\ SecondDecodeOfSamePacket
    /\ frame_input.keyframe
    /\ Len(entry_slices) = 2
    /\ entry_slices[1].state # decoder.initial_states
    /\ ReleaseScratch(decoder, frame) = result.frame

\* the pixels of the rectangle parse_slice_header gave slice s
SliceRect(s) ==
    { << x, y >> : x \in s.start_x..(s.start_x + s.width - 1),
                   y \in s.start_y..(s.start_y + s.height - 1) }

\* the slices whose header the call in progress has parsed
ParsedSlices == 1..slicenum

\* C8: when the slice headers name each cell of the slice grid once, the
\* rectangles parse_slice_header computes are pairwise disjoint and their
\* union is the W x H frame rectangle.
C8_SliceRectanglesTileTheFrame ==
    (pc \in {"slice", "content"}) =>
        LET sl == decoder.current_frame.slices IN
        /\ \A i \in ParsedSlices : \A j \in ParsedSlices :
              i # j => SliceRect(sl[i]) \cap SliceRect(sl[j]) = {}
        /\ \A i \in ParsedSlices :
              SliceRect(sl[i]) \subseteq
                  (0..(decoder.width - 1)) \X (0..(decoder.height - 1))
        /\ slicenum = GridCells(decoder.record) =>
              UNION { SliceRect(sl[i]) : i \in ParsedSlices }
                  = (0..(decoder.width - 1)) \X (0..(decoder.height - 1))

C8_Witness ==
    /\ pc = "slice"
    /\ slicenum = 4
    /\ GridCells(decoder.record) = 4
    /\ decoder.width = 3
    /\ decoder.height = 3

\* the buffer indices decode_line writes for plane p of slice s
SliceWrites(s, p) ==
    PlaneWrites(IF decoder.record.colorspace_type # 1
                THEN PlaneGeometry(decoder, s, p)
                ELSE PlaneGeometryRGB(decoder, s, p))

\* C9: no two slices of a frame write the same element of a plane buffer,
\* whatever the plane and the chroma subsampling.
C9_SlicesWriteDisjointElements ==
    (pc \in {"slice", "content"}) =>
        LET sl == decoder.current_frame.slices IN
        \A p \in 0..(PrimaryColorCount(decoder.record) - 1) :
            \A i \in ParsedSlices : \A j \in ParsedSlices :
                i # j => SliceWrites(sl[i], p) \cap SliceWrites(sl[j], p) = {}

\* C10: a frame decode_frame returns has an empty buf32 and, for 8-bit RGB,
\* an empty buf16; during the call buf32 is allocated only for 16-bit RGB.
C10_ScratchBuffersAreReleased ==
    /\ (Returned /\ result.kind = "Ok") =>
          /\ result.frame.buf32 = << >>
          /\ (decoder.record.bits_per_raw_sample = 8
                 /\ decoder.record.colorspace_type = 1)
                => result.frame.buf16 = << >>
    /\ (pc \in {"slice", "content"} /\ frame.buf32 # << >>) =>
          /\ decoder.record.bits_per_raw_sample = 16
          /\ decoder.record.colorspace_type = 1

C10_Witness ==
    /\ Returned
    /\ result.kind = "Ok"
    /\ decoder.record.bits_per_raw_sample = 16
    /\ decoder.record.colorspace_type = 1
    /\ decoder.record.extra_plane
    /\ result.frame.buf16 # << >>

\* the number of elements plane p (from 1) of the output buffer is to have
PlaneSize(d, p) ==
    IF d.record.chroma_planes /\ p \in {2, 3}
    THEN (d.width \div Pow2(d.record.log2_h_chroma_subsample))
            * (d.height \div Pow2(d.record.log2_v_chroma_subsample))
    ELSE d.width * d.height

\* C11: for every combination of chroma_planes and extra_plane, decode_frame
\* allocates the output buffer without an out-of-range plane index, with
\* exactly 1 + 2*chroma_planes + extra_plane planes, each of them allocated.
C11_PlanesMatchFlags ==
    /\ (pc = "panicked") => ~AllocFrame(decoder).panic
    /\ (pc \in {"slice", "content"}) =>
          LET rec  == decoder.record
              bufs == frame[OutputBuffer(rec)]
          IN /\ Len(bufs) = 1 + (IF rec.chroma_planes THEN 2 ELSE 0)
                               + (IF rec.extra_plane THEN 1 ELSE 0)
             /\ \A p \in 1..Len(bufs) : Len(bufs[p]) = PlaneSize(decoder, p)

\* C12: once Decoder::new has returned a decoder, no step of any decode_frame
\* call, successful or failed, keyframe or inter, changes initial_states or
\* state_transition.
C12_InitialStatesNeverChange ==
    [][(pc \notin {"new", "failed"}) =>
            /\ decoder'.initial_states = decoder.initial_states
            /\ decoder'.state_transition = decoder.state_transition]_vars

C12_Witness ==
    /\ Returned
    /\ result.kind = "Err"
    /\ calls >= 2
    /\ ~result.pkt.keyframe
    /\ decoder.record.coder_type = 2
    /\ Len(decoder.current_frame.slices) = 2
    /\ decoder.current_frame.slices[1].state # << >>
    /\ decoder.current_frame.slices[1].state # decoder.initial_states
    /\ decoder.initial_states = BuildInitialStates(decoder.record)
    /\ decoder.state_transition = BuildStateTransition(decoder.record)

\* initial_states has the shape of initial_state_delta and every entry is
\* (pred + delta) mod 256, pred being 128 in row 0 and the entry above otherwise
StatesFollowDeltas(d) ==
    LET isd == d.record.initial_state_delta
        st  == d.initial_states
    IN /\ Len(st) = Len(isd)
       /\ \A i \in 1..Len(isd) :
             /\ Len(st[i]) = Len(isd[i])
             /\ \A j \in 1..Len(isd[i]) :
                   /\ Len(st[i][j]) = Len(isd[i][j])
                   /\ \A k \in 1..Len(isd[i][j]) :
                         LET pred == IF j = 1 THEN InitPred ELSE st[i][j - 1][k]
                         IN /\ st[i][j][k] = (pred + isd[i][j][k]) % Byte
                            /\ st[i][j][k] \in 0..(Byte - 1)

\* C13: for every record that parses, whatever its signed 16-bit deltas,
\* Decoder::new returns with initial_states of the shape of
\* initial_state_delta and every entry (pred + delta) mod 256, in 0..255.
C13_InitialStatesFromDeltas ==
    /\ ~(result.op = "new" /\ result.kind = "Panic")
    /\ (pc = "idle" /\ calls = 0) => StatesFollowDeltas(decoder)

\* C14: in RGB mode the RCT inverse applied to a slice is chosen by the bit
\* depth alone (8: the 8-bit variant, 9 to 15: the in-place 16-bit variant,
\* 16: the variant reading the 32-bit scratch), and the buffer the variant
\* reads is the one decode_line writes the slice's samples into, with or
\* without an alpha plane.
C14_RctReadsWhatDecodeLineWrote ==
    (pc = "content" /\ decoder.record.colorspace_type = 1) =>
        LET rec == decoder.record
            v   == RctVariant(rec)
        IN /\ v = (IF rec.bits_per_raw_sample = 8 THEN "rct8"
                   ELSE IF rec.bits_per_raw_sample \in 9..15 THEN "rct_mid"
                   ELSE "rct16")
           /\ RctSource(v) = LineBuffer(rec)

\* the slot of quant_table_set_index that belongs to the group of plane p
\* (from 0) in YCbCr mode: Y, then Cb and Cr, then alpha
GroupSlot(rec, p) ==
    IF p = 0 THEN 0
    ELSE IF rec.chroma_planes /\ p \in {1, 2} THEN 1
    ELSE IF rec.chroma_planes THEN 2 ELSE 1

AtDecodeSlice == pc = "slice" /\ slicenum < Len(decoder.current_frame.slices)

\* C16: decode_slice with ec == 1 checks the slice's integrity first: a
\* non-zero error_status fails it with a SliceError, otherwise a non-zero CRC
\* residue fails it; either way the stored state of the slice (and of every
\* other slice) is left as it was and the slice's samples are not decoded.
\* With ec == 0 neither is examined and the slice goes on to be decoded.
C16_IntegrityCheckComesFirst ==
    [][AtDecodeSlice =>
        LET i    == slicenum + 1
            info == decoder.current_frame.slice_info[i]
            sp   == frame_input.slices[info.pos]
            checked  == decoder.record.ec = 1
            flagged  == checked /\ info.error_status # 0
            mismatch == checked /\ info.error_status = 0 /\ ~sp.crc_ok
        IN /\ flagged =>
                /\ result'.kind = "Err"
                /\ result'.err.inner
                      = << MkError("SliceError", "error_status is non-zero") >>
           /\ mismatch =>
                /\ result'.kind = "Err"
                /\ result'.err.inner
                      = << MkError("InvalidInputData", "CRC mismatch") >>
           /\ (flagged \/ mismatch) =>
                /\ pc' = "idle"
                /\ decoder' = decoder
                /\ slicenum' = slicenum
                /\ result'.frame = EmptyFrameBufs
           /\ ~(flagged \/ mismatch) => pc' = "content" /\ result' = result
    ]_vars

C16_Witness ==
    /\ Returned
    /\ result.kind = "Err"
    /\ decoder.record.ec = 1
    /\ result.pkt.keyframe
    /\ Len(result.pkt.slices) = 2
    /\ result.pkt.slices[2].error_status # 0
    /\ ~result.pkt.slices[2].crc_ok
    /\ result.err.slice = 1
    /\ decoder.current_frame.slices[1].state # << >>
    /\ decoder.current_frame.slices[2].state = << >>

\* the slice decode_slice is about to decode, with the boundaries its header
\* gives it
SliceAtHand ==
    LET i  == slicenum + 1
        sp == frame_input.slices[decoder.current_frame.slice_info[i].pos]
    IN parse_slice_header(decoder, sp, i).current_frame.slices[i]

\* C17: every index offset + y*stride + x that decode_line writes for a slice
\* lies inside the plane buffer decode_frame allocated for that plane,
\* whatever the frame width and height and the chroma subsampling.
C17_WritesStayInsidePlanes ==
    (pc = "content") =>
        LET bufs == frame[LineBuffer(decoder.record)] IN
        \A p \in 0..(PrimaryColorCount(decoder.record) - 1) :
            /\ p + 1 <= Len(bufs)
            /\ \A idx \in SliceWrites(SliceAtHand, p) :
                  idx >= 0 /\ idx + 1 <= Len(bufs[p + 1])

\* two state tensors have the same shape
SameShape(a, b) ==
    /\ Len(a) = Len(b)
    /\ \A i \in 1..Len(a) :
          /\ Len(a[i]) = Len(b[i])
          /\ \A j \in 1..Len(a[i]) : Len(a[i][j]) = Len(b[i][j])

\* C18: whenever a slice of an inter frame is about to be decoded, after any
\* calls before it, failed ones included, its range-coder state has the shape
\* of initial_states: it is never empty or never-initialised.
C18_InterFrameHasInitialisedState ==
    (pc = "content" /\ ~decoder.current_frame.keyframe) =>
        SameShape(decoder.current_frame.slices[slicenum + 1].state,
                  decoder.initial_states)

====
